---- MODULE Spec2Model ----
(***************************************************************************)
(* Model of src/src/runtime_ccall.cpp: the library handle cache            *)
(* (jl_get_library), the symbol slot resolver (jl_load_and_lookup) and the *)
(* cfunction trampoline cache with its finalizer-driven reclamation        *)
(* (jl_get_cfunction_trampoline, trampoline_deleter).                      *)
(*                                                                         *)
(* The build modelled is the non-Windows one: lines 24-29 are compiled out.*)
(***************************************************************************)
EXTENDS Integers, Sequences, FiniteSets, TLC

(***************************************************************************)
(* Bounds.                                                                 *)
(***************************************************************************)
\* native threads calling into the library handle cache concurrently
NThreads == 2

Threads == 1..NThreads

\* threads calling jl_get_cfunction_trampoline concurrently
NBuilders == 2

Builders == 1..NBuilders

(***************************************************************************)
(* Values of the library part.                                             *)
(***************************************************************************)
\* the null pointer
NULL == "NULL"

\* library names callers pass (f_lib); NULL is the default search scope
Names == {"libA", "libB"}

\* caller-owned symbol slots, one per (library, symbol) use site
Slots == {"slotA"}

\* the library each use site names
SlotLib == [s \in Slots |-> "libA"]

\* jl_RTLD_DEFAULT_handle
jl_RTLD_DEFAULT_handle == "RTLD_DEFAULT"

\* The native loader: NULL on failure, the library's handle otherwise.  Loads
\* of one name yield one handle (the loader is idempotent); whether a given
\* load succeeds is the environment's choice `ok`.
jl_load_dynamic_library(name, ok) ==
    IF ~ok THEN NULL ELSE IF name = "libA" THEN "hndA" ELSE "hndB"

\* jl_dlsym: the address the symbol has in the handle's library
jl_dlsym(h, sym) ==
    CASE h = "hndA" -> "symA"
      [] h = "hndB" -> "symB"
      [] h = jl_RTLD_DEFAULT_handle -> "sym0"
      [] OTHER -> NULL

VARIABLES
    \* ---- library handle cache and symbol slots ----
    libMap,        \* std::map<std::string, void*>: a function on the keys present
    libmap_lock,   \* owner thread of libmap_lock, 0 when free
    slot,          \* contents of each caller-owned symbol slot
    pc,            \* each thread's position
    fn,            \* the exported function each thread was called into
    f_lib,         \* jl_get_library / jl_load_and_lookup argument
    sl,            \* jl_load_and_lookup argument hnd (the slot)
    hnd,           \* local of jl_get_library
    handle,        \* local of jl_load_and_lookup
    ret,           \* value returned to the caller
    \* ---- observations of the current call (history) ----
    startPub,      \* libMap slot content for f_lib when jl_get_library was entered
    glret,         \* what the current jl_get_library invocation returned
    lockTaken,     \* the current call acquired libmap_lock
    loaderCalls,   \* native loads performed by the current call
    slotEver,      \* the symbol slots that have held a handle at some time
    \* ---- cfunction trampolines ----
    HT_NOTFOUND,   \* what the htable reads for an absent key; fixed for a build
    cache,         \* each call site's cache root (htable_t *cache)
    inner,         \* the inner caches malloc'ed at line 130, by address
    trampolines_table, \* trampolines.table is set (htable_new was called on it)
    recs,          \* the parameter arrays (nval) malloc'ed so far, with their trampolines
    trampolines,   \* static htable_t trampolines: finalizer -> nval
    gcFinalizers,  \* callbacks registered with the collector, per object
    reachable,     \* the finalizer objects the program still references
    fault,         \* how the process died, "none" while it runs
    last,          \* observation of the latest jl_get_cfunction_trampoline call
    \* ---- threads inside jl_get_cfunction_trampoline without serialization ----
    bpc,           \* each thread's position
    barg,          \* its arguments
    bnval,         \* its parameter array nval
    bret,          \* its tramp, then the value it returns
    bloc,          \* its other locals
    bcells,        \* per root: the cells of its table, each a key and a value
    bhash,         \* the cell at which the probing for each vals pointer starts
    bwith,         \* per thread: the threads whose call ran during its call
    \* ---- jl_get_cpu_features_llvm ----
    HostFeatures,  \* the StringMap<bool> the host reports, in iteration order
    attr,          \* the string built, a sequence of characters
    featRet        \* jl_get_cpu_features_llvm has returned attr

libVars == <<libMap, libmap_lock, slot, pc, fn, f_lib, sl, hnd, handle, ret,
             startPub, glret, lockTaken, loaderCalls, slotEver>>

trampVars == <<HT_NOTFOUND, cache, inner, trampolines_table, recs, trampolines,
               gcFinalizers, reachable, fault, last>>

concVars == <<bpc, barg, bnval, bret, bloc, bcells, bhash, bwith>>

featVars == <<HostFeatures, attr, featRet>>

vars == <<libVars, trampVars, concVars, featVars>>

NONE == "none"

LibInit ==
    /\ libMap = [n \in {} |-> NULL]
    /\ libmap_lock = 0
    /\ slot = [s \in Slots |-> NULL]
    /\ pc = [t \in Threads |-> "idle"]
    /\ fn = [t \in Threads |-> NONE]
    /\ f_lib = [t \in Threads |-> NULL]
    /\ sl = [t \in Threads |-> NONE]
    /\ hnd = [t \in Threads |-> NULL]
    /\ handle = [t \in Threads |-> NULL]
    /\ ret = [t \in Threads |-> NONE]
    /\ startPub = [t \in Threads |-> NULL]
    /\ glret = [t \in Threads |-> NONE]
    /\ lockTaken = [t \in Threads |-> FALSE]
    /\ loaderCalls = [t \in Threads |-> 0]
    /\ slotEver = [s \in Slots |-> FALSE]

(***************************************************************************)
(* jl_get_library, lines 21-45.                                            *)
(***************************************************************************)
\* std::map::operator[]: the key's slot, inserted value-initialised when absent
MapSlotInsert(m, k) ==
    [n \in DOMAIN m \cup {k} |-> IF n \in DOMAIN m THEN m[n] ELSE NULL]

\* content of the map slot of a name (NULL when the name has no slot yet)
MapGet(m, k) == IF k \in DOMAIN m THEN m[k] ELSE NULL

\* `return v` of jl_get_library: to the outside caller, or back into line 52
GL_Return(t, v) ==
    /\ glret' = [glret EXCEPT ![t] = v]
    /\ IF fn[t] = "jl_get_library"
         THEN /\ pc' = [pc EXCEPT ![t] = "done"]
              /\ ret' = [ret EXCEPT ![t] = v]
              /\ UNCHANGED handle
         ELSE /\ pc' = [pc EXCEPT ![t] = "ll_store"]
              /\ handle' = [handle EXCEPT ![t] = v]
              /\ UNCHANGED ret

\* a caller enters jl_get_library(n)
CallGetLibrary(t, n) ==
    /\ UNCHANGED <<trampVars, concVars, featVars, slotEver>>
    /\ pc[t] = "idle"
    /\ pc' = [pc EXCEPT ![t] = "gl_entry"]
    /\ fn' = [fn EXCEPT ![t] = "jl_get_library"]
    /\ f_lib' = [f_lib EXCEPT ![t] = n]
    /\ UNCHANGED <<libMap, libmap_lock, slot, sl, hnd, handle, ret,
                   startPub, glret, lockTaken, loaderCalls>>

\* mutant of DefaultScope: the test of line 30 never true
DefaultScope_Never(name) == FALSE

\* line 30: the name asks for the default search scope
DefaultScope(name) == name = NULL

\* lines 30-31
GL_Entry(t) ==
    /\ UNCHANGED <<trampVars, concVars, featVars, slotEver>>
    /\ pc[t] = "gl_entry"
    /\ startPub' = [startPub EXCEPT ![t] = MapGet(libMap, f_lib[t])]
    /\ lockTaken' = [lockTaken EXCEPT ![t] = FALSE]
    /\ loaderCalls' = [loaderCalls EXCEPT ![t] = 0]
    /\ IF DefaultScope(f_lib[t])
         THEN GL_Return(t, jl_RTLD_DEFAULT_handle)
         ELSE /\ pc' = [pc EXCEPT ![t] = "gl_lock"]
              /\ glret' = [glret EXCEPT ![t] = NONE]
              /\ UNCHANGED <<ret, handle>>
    /\ UNCHANGED <<libMap, libmap_lock, slot, fn, f_lib, sl, hnd>>

\* line 32
GL_Lock(t) ==
    /\ UNCHANGED <<trampVars, concVars, featVars, slotEver>>
    /\ pc[t] = "gl_lock"
    /\ libmap_lock = 0
    /\ libmap_lock' = t
    /\ lockTaken' = [lockTaken EXCEPT ![t] = TRUE]
    /\ pc' = [pc EXCEPT ![t] = "gl_slot"]
    /\ UNCHANGED <<libMap, slot, fn, f_lib, sl, hnd, handle, ret,
                   startPub, glret, loaderCalls>>

\* line 35
GL_Slot(t) ==
    /\ UNCHANGED <<trampVars, concVars, featVars, slotEver>>
    /\ pc[t] = "gl_slot"
    /\ libMap' = MapSlotInsert(libMap, f_lib[t])
    /\ pc' = [pc EXCEPT ![t] = "gl_unlock"]
    /\ UNCHANGED <<libmap_lock, slot, fn, f_lib, sl, hnd, handle, ret,
                   startPub, glret, lockTaken, loaderCalls>>

\* mutant of JL_UNLOCK_NOGC: the lock left with its owner
JL_UNLOCK_NOGC_Skipped(owner) == owner

\* JL_UNLOCK_NOGC(&libmap_lock), line 36: the lock's owner afterwards (0: free)
JL_UNLOCK_NOGC(owner) == 0

\* line 36
GL_Unlock(t) ==
    /\ UNCHANGED <<trampVars, concVars, featVars, slotEver>>
    /\ pc[t] = "gl_unlock"
    /\ libmap_lock' = JL_UNLOCK_NOGC(libmap_lock)
    /\ pc' = [pc EXCEPT ![t] = "gl_read"]
    /\ UNCHANGED <<libMap, slot, fn, f_lib, sl, hnd, handle, ret,
                   startPub, glret, lockTaken, loaderCalls>>

\* mutant of Published: the early return of line 38 never taken
Published_Never(h) == FALSE

\* line 38: the slot already holds a handle
Published(h) == h # NULL

\* lines 37-39
GL_Read(t) ==
    /\ UNCHANGED <<trampVars, concVars, featVars, slotEver>>
    /\ pc[t] = "gl_read"
    /\ hnd' = [hnd EXCEPT ![t] = libMap[f_lib[t]]]
    /\ IF Published(libMap[f_lib[t]])
         THEN GL_Return(t, libMap[f_lib[t]])
         ELSE /\ pc' = [pc EXCEPT ![t] = "gl_load"]
              /\ UNCHANGED <<ret, handle, glret>>
    /\ UNCHANGED <<libMap, libmap_lock, slot, fn, f_lib, sl,
                   startPub, lockTaken, loaderCalls>>

\* line 41
GL_Load(t) ==
    /\ UNCHANGED <<trampVars, concVars, featVars, slotEver>>
    /\ pc[t] = "gl_load"
    /\ \E ok \in BOOLEAN :
         hnd' = [hnd EXCEPT ![t] = jl_load_dynamic_library(f_lib[t], ok)]
    /\ loaderCalls' = [loaderCalls EXCEPT ![t] = @ + 1]
    /\ pc' = [pc EXCEPT ![t] = "gl_store"]
    /\ UNCHANGED <<libMap, libmap_lock, slot, fn, f_lib, sl, handle, ret,
                   startPub, glret, lockTaken>>

\* mutant of StoreLoaded: the store of line 43 without the test of line 42
StoreLoaded_Unchecked(m, k, h) == [m EXCEPT ![k] = h]

\* lines 42-43: publish the handle when the load succeeded
StoreLoaded(m, k, h) == IF h # NULL THEN [m EXCEPT ![k] = h] ELSE m

\* lines 42-44
GL_Store(t) ==
    /\ UNCHANGED <<trampVars, concVars, featVars, slotEver>>
    /\ pc[t] = "gl_store"
    /\ libMap' = StoreLoaded(libMap, f_lib[t], hnd[t])
    /\ GL_Return(t, hnd[t])
    /\ UNCHANGED <<libmap_lock, slot, fn, f_lib, sl, hnd,
                   startPub, lockTaken, loaderCalls>>

(***************************************************************************)
(* jl_load_and_lookup, lines 48-54.                                        *)
(***************************************************************************)
\* lines 50-51: read the slot; an empty one calls jl_get_library(f_lib)
CallLoadAndLookup(t, s) ==
    /\ UNCHANGED <<trampVars, concVars, featVars, slotEver>>
    /\ pc[t] = "idle"
    /\ fn' = [fn EXCEPT ![t] = "jl_load_and_lookup"]
    /\ sl' = [sl EXCEPT ![t] = s]
    /\ f_lib' = [f_lib EXCEPT ![t] = SlotLib[s]]
    /\ handle' = [handle EXCEPT ![t] = slot[s]]
    /\ pc' = [pc EXCEPT ![t] = IF slot[s] # NULL THEN "ll_sym" ELSE "gl_entry"]
    /\ lockTaken' = [lockTaken EXCEPT ![t] = FALSE]
    /\ loaderCalls' = [loaderCalls EXCEPT ![t] = 0]
    /\ UNCHANGED <<libMap, libmap_lock, slot, hnd, ret, startPub, glret>>

\* line 52: the store of whatever jl_get_library returned
LL_Store(t) ==
    /\ UNCHANGED <<trampVars, concVars, featVars>>
    /\ pc[t] = "ll_store"
    /\ slot' = [slot EXCEPT ![sl[t]] = handle[t]]
    /\ slotEver' = [slotEver EXCEPT ![sl[t]] = @ \/ handle[t] # NULL]
    /\ pc' = [pc EXCEPT ![t] = "ll_sym"]
    /\ UNCHANGED <<libMap, libmap_lock, fn, f_lib, sl, hnd, handle, ret,
                   startPub, glret, lockTaken, loaderCalls>>

\* line 53
LL_Sym(t) ==
    /\ UNCHANGED <<trampVars, concVars, featVars, slotEver>>
    /\ pc[t] = "ll_sym"
    /\ ret' = [ret EXCEPT ![t] = jl_dlsym(handle[t], "f_name")]
    /\ pc' = [pc EXCEPT ![t] = "done"]
    /\ UNCHANGED <<libMap, libmap_lock, slot, fn, f_lib, sl, hnd, handle,
                   startPub, glret, lockTaken, loaderCalls>>

\* the caller takes the result; the frame's locals are gone
Finish(t) ==
    /\ UNCHANGED <<trampVars, concVars, featVars, slotEver>>
    /\ pc[t] = "done"
    /\ pc' = [pc EXCEPT ![t] = "idle"]
    /\ fn' = [fn EXCEPT ![t] = NONE]
    /\ f_lib' = [f_lib EXCEPT ![t] = NULL]
    /\ sl' = [sl EXCEPT ![t] = NONE]
    /\ hnd' = [hnd EXCEPT ![t] = NULL]
    /\ handle' = [handle EXCEPT ![t] = NULL]
    /\ ret' = [ret EXCEPT ![t] = NONE]
    /\ startPub' = [startPub EXCEPT ![t] = NULL]
    /\ glret' = [glret EXCEPT ![t] = NONE]
    /\ lockTaken' = [lockTaken EXCEPT ![t] = FALSE]
    /\ loaderCalls' = [loaderCalls EXCEPT ![t] = 0]
    /\ UNCHANGED <<libMap, libmap_lock, slot>>

LibNext ==
    \E t \in Threads :
          \/ \E n \in Names \cup {NULL} : CallGetLibrary(t, n)
          \/ \E s \in Slots : CallLoadAndLookup(t, s)
          \/ GL_Entry(t)
          \/ GL_Lock(t)
          \/ GL_Slot(t)
          \/ GL_Unlock(t)
          \/ GL_Read(t)
          \/ GL_Load(t)
          \/ GL_Store(t)
          \/ LL_Store(t)
          \/ LL_Sym(t)
          \/ Finish(t)

(***************************************************************************)
(* The cfunction trampolines, lines 102-178.                               *)
(***************************************************************************)
\* call sites: each has its own cache root and its own formal parameters
Sites == {"siteE", "siteP"}

\* jl_emptysvec
jl_emptysvec == << >>

\* the formal-parameter vector (fill) each call site passes
Fill == [s \in Sites |-> IF s = "siteE" THEN jl_emptysvec
                                           ELSE <<"T", "S", "U", "R">>]

\* closures made callable (f)
Closures == {"f1", "f2"}

\* binding-value arrays (vals), by identity; v1 and v1b have equal contents
Vals == {"v1", "v1b", "v2", "v3"}

\* an error raised by the specialization evaluator
THROW == "THROW"

\* jl_any_type
jl_any_type == "Any"

\* The specialization evaluator: deterministic in (formal, env, vals); the
\* environment is the call site's and is left implicit.
\*   v1, v1b: T -> Int64, S -> Vector{Int}, U -> Any, R -> Integer
\*   v2:      T -> Any, S raises
\*   v3:      T raises
\*   v4:      T -> Any, S -> Int64, U -> Integer, R -> Int64
jl_instantiate_type_in_env(formal, vals) ==
    CASE vals \in {"v1", "v1b"} ->
             (CASE formal = "T" -> "Int64"
                [] formal = "S" -> "VectorInt"
                [] formal = "U" -> jl_any_type
                [] OTHER -> "Integer")
      [] vals = "v2" -> (IF formal = "T" THEN jl_any_type ELSE THROW)
      [] vals = "v4" ->
             (CASE formal = "T" -> jl_any_type
                [] formal = "U" -> "Integer"
                [] OTHER -> "Int64")
      [] OTHER -> (IF formal = "T" THEN THROW ELSE "Integer")

\* jl_is_concrete_type
jl_is_concrete_type(v) == v \in {"Int64", "VectorInt"}

\* jl_is_immutable: the datatype's instances are immutable
jl_is_immutable(v) == v \in {"Int64", "Integer", "Any"}

\* mutant of SparamVal: the evaluator's result stored whatever it is
SparamVal_Unfiltered(v) == v

\* lines 145-147: what is bound for an evaluator result
SparamVal(v) ==
    IF v # jl_any_type
      THEN IF ~jl_is_concrete_type(v) \/ ~jl_is_immutable(v) THEN NULL ELSE v
      ELSE v

\* lines 143-149 and 151: the loop from 1-based position i on, acc holding the
\* cells nval[2..] filled so far.  threw: the evaluator raised at nval cell
\* index `at` (0-based formal index); evals: evaluator calls made.
RECURSIVE FillLoop_Swallow(_, _, _, _)
\* mutant of FillLoop: the error of the evaluator swallowed, the cell and the
\* ones after it left unspecialized
FillLoop_Swallow(fill, vals, i, acc) ==
    IF i > Len(fill)
      THEN [threw |-> FALSE, params |-> acc, evals |-> Len(fill), at |-> -1]
      ELSE LET r == jl_instantiate_type_in_env(fill[i], vals)
           IN  FillLoop_Swallow(fill, vals, i + 1,
                   Append(acc, IF r = THROW THEN NULL ELSE SparamVal(r)))

RECURSIVE FillLoop(_, _, _, _)
FillLoop(fill, vals, i, acc) ==
    IF i > Len(fill)
      THEN [threw |-> FALSE, params |-> acc, evals |-> Len(fill), at |-> -1]
      ELSE LET r == jl_instantiate_type_in_env(fill[i], vals)
           IN  IF r = THROW
                 THEN [threw |-> TRUE, params |-> acc, evals |-> i, at |-> i - 1]
                 ELSE FillLoop(fill, vals, i + 1, Append(acc, SparamVal(r)))

\* finalizer objects callers pass, with what the runtime says of each:
\*   concrete: jl_is_concrete_type(finalizer)
\*   instance: jl_typeof(finalizer)->instance == finalizer
\*   unionall: jl_is_unionall(finalizer)
\*   uwdt:     jl_is_datatype(jl_unwrap_unionall(finalizer))
\*   wrapper:  the unwrapped datatype's name->wrapper == finalizer
\*   kind:     what the object is
FinAttr ==
    [ obj    |-> [concrete |-> FALSE, instance |-> FALSE, unionall |-> FALSE,
                  uwdt |-> FALSE, wrapper |-> FALSE, kind |-> "heap object"],
      single |-> [concrete |-> FALSE, instance |-> TRUE, unionall |-> FALSE,
                  uwdt |-> FALSE, wrapper |-> FALSE, kind |-> "singleton instance"],
      ctype  |-> [concrete |-> TRUE, instance |-> FALSE, unionall |-> FALSE,
                  uwdt |-> FALSE, wrapper |-> FALSE, kind |-> "concrete type"],
      wrap   |-> [concrete |-> FALSE, instance |-> FALSE, unionall |-> TRUE,
                  uwdt |-> TRUE, wrapper |-> TRUE, kind |-> "canonical wrapper"],
      uapp   |-> [concrete |-> FALSE, instance |-> FALSE, unionall |-> TRUE,
                  uwdt |-> TRUE, wrapper |-> FALSE, kind |-> "partial unionall"],
      uunion |-> [concrete |-> FALSE, instance |-> FALSE, unionall |-> TRUE,
                  uwdt |-> FALSE, wrapper |-> FALSE, kind |-> "unionall of a union"],
      abst   |-> [concrete |-> FALSE, instance |-> FALSE, unionall |-> FALSE,
                  uwdt |-> FALSE, wrapper |-> FALSE, kind |-> "abstract type"] ]

\* every kind of finalizer object
AllFins == DOMAIN FinAttr

\* the finalizer objects of the program with a collector
Fins == {"obj", "single", "wrap"}

\* mutant of Permanent: the unionall test of lines 162-166 dropped
Permanent_NoWrapper(fin) == FinAttr[fin].concrete \/ FinAttr[fin].instance

\* mutant of Permanent: the singleton-instance test of line 161 dropped
Permanent_NoInstance(fin) ==
    LET a == FinAttr[fin]
        permanent == a.concrete
    IN  IF a.unionall THEN (IF a.uwdt /\ a.wrapper THEN TRUE ELSE permanent)
                      ELSE permanent

\* lines 159-166
Permanent(fin) ==
    LET a == FinAttr[fin]
        permanent == a.concrete \/ a.instance
    IN  IF a.unionall THEN (IF a.uwdt /\ a.wrapper THEN TRUE ELSE permanent)
                      ELSE permanent

\* parameter arrays built at most (the model stops building beyond it)
MaxRecs == 2

\* Entry points are the positive numbers 1, 2, ... (the index of the record
\* in recs).  The null pointer among them:
NullTramp == 0

\* the marker of an htable whose marker is not the null pointer
NotFoundMarker == 0 - 1

\* The values HT_NOTFOUND can have.  htable.h is not part of the source at
\* hand: line 135 tests the result of ptrhash_get against the null pointer,
\* lines 108 and 129 test against HT_NOTFOUND.  Both htables are modelled.
NotFoundValues == {NullTramp, NotFoundMarker}

\* an htable_t with no entry
EmptyTable == [k \in {} |-> 0]

\* the htable holds a value under the key
ptrhash_has(h, k) == k \in DOMAIN h

\* ptrhash_get: the value under the key, HT_NOTFOUND when there is none
ptrhash_get(h, k) == IF k \in DOMAIN h THEN h[k] ELSE HT_NOTFOUND

\* ptrhash_put: the entry under the key set, added when absent
ptrhash_put(h, k, v) == [x \in DOMAIN h \cup {k} |-> IF x = k THEN v ELSE h[x]]

\* ptrhash_remove: the entry under the key dropped
ptrhash_remove(h, k) == [x \in DOMAIN h \ {k} |-> h[x]]

\* lines 142 and 148: cell 1 holds the closure, cells 2.. the bound values
NvalCells(f, params) == [closure |-> f, params |-> params]

\* a parameter array with its trampoline (line 156: cell 0), and what the
\* model remembers of it: frees, the finalizer, and the call that built it
Record(id, cells, fin, site, key, f) ==
    [tramp |-> id, closure |-> cells.closure, params |-> cells.params,
     trampFrees |-> 0, nvalFrees |-> 0, freedBy |-> NONE,
     fin |-> fin, site |-> site, key |-> key, f |-> f]

\* no arguments, no parameter array
NoArgs == [site |-> NONE, fin |-> NONE, f |-> NONE, vals |-> NONE]
NoNval == [closure |-> NONE, params |-> << >>]

\* no call observed
NoCall ==
    [kind |-> "none", site |-> NONE, f |-> NONE, vals |-> NONE, fin |-> NONE,
     ret |-> 0, evals |-> 0, at |-> -1, nvalAllocs |-> 0, nvalFrees |-> 0,
     trampAllocs |-> 0, inits |-> 0, puts |-> 0, innerLookups |-> 0,
     innerAllocs |-> 0, regs |-> 0, gcAdds |-> 0]

TrampInit ==
    /\ cache = [s \in Sites |-> [table |-> FALSE, gen |-> 0, ent |-> EmptyTable]]
    /\ inner = [x \in {} |-> EmptyTable]
    /\ trampolines_table = FALSE
    /\ recs = << >>
    /\ trampolines = EmptyTable
    /\ gcFinalizers = [o \in AllFins |-> 0]
    /\ reachable = [o \in AllFins |-> TRUE]
    /\ fault = "none"
    /\ last = NoCall

\* mutant of UsesInner: the test of line 126 lost, every call takes a second level
UsesInner_Always(fill) == TRUE

\* line 126
UsesInner(fill) == fill # jl_emptysvec

\* htable_new(cache, 1), line 125: the table set up with no entry; gen counts
\* the set-ups (a pointer to an entry of an earlier set-up no longer reaches
\* the table)
htable_new(root) == [table |-> TRUE, gen |-> root.gen + 1, ent |-> EmptyTable]

\* the address malloc gives the next inner cache made for vals on a site
NewTable(site, vals) ==
    <<site, vals,
      1 + Cardinality({x \in DOMAIN inner : x[1] = site /\ x[2] = vals})>>

\* mutant of RootAfterLookup: a fresh inner cache stored at every call
RootAfterLookup_Fresh(site, fill, vals) ==
    LET root == IF cache[site].table THEN cache[site] ELSE htable_new(cache[site])
    IN  IF fill # jl_emptysvec
          THEN [root EXCEPT !.ent = [x \in DOMAIN root.ent \cup {vals} |->
                   IF x = vals THEN NewTable(site, vals) ELSE root.ent[x]]]
          ELSE root

\* lines 124-133: the root after its table is made and, with formal parameters,
\* after the inner cache of vals is looked up and, when absent, made and stored
RootAfterLookup(site, fill, vals) ==
    LET root == IF cache[site].table THEN cache[site] ELSE htable_new(cache[site])
    IN  IF UsesInner(fill) /\ ~ptrhash_has(root.ent, vals)
          THEN [root EXCEPT !.ent = ptrhash_put(@, vals, NewTable(site, vals))]
          ELSE root

\* line 130: the inner caches after the lookup, with the one made during it
InnerAfterLookup(root, fill, vals) ==
    IF UsesInner(fill) /\ root.ent[vals] \notin DOMAIN inner
      THEN [x \in DOMAIN inner \cup {root.ent[vals]} |->
               IF x \in DOMAIN inner THEN inner[x] ELSE EmptyTable]
      ELSE inner

\* lines 126-133: the table searched for f, the root's or the inner cache's
LookupTable(root, heap, fill, vals) ==
    IF UsesInner(fill) THEN heap[root.ent[vals]] ELSE root.ent

\* mutant of CacheHit: the early return of lines 135-136 lost
CacheHit_Never(tramp) == FALSE

\* line 135: if (tramp)
CacheHit(tramp) == tramp # NullTramp

\* line 158 without formal parameters: tramp stored under f in the root
RootPut(root, fill, f, tramp) ==
    IF UsesInner(fill) THEN root ELSE [root EXCEPT !.ent = ptrhash_put(@, f, tramp)]

\* line 158 with formal parameters: tramp stored under f in the inner cache
\* of vals
InnerPut(root, heap, fill, vals, f, tramp) ==
    IF UsesInner(fill)
      THEN [heap EXCEPT ![root.ent[vals]] = ptrhash_put(@, f, tramp)]
      ELSE heap

\* mutant of CatchFrees: the free of line 152 lost
CatchFrees_None(frees) == frees

\* line 152: the catch block frees nval; frees counts the frees of nval so far
CatchFrees(frees) == frees + 1

\* jl_get_cfunction_trampoline, lines 114-178, one whole call.  kind tells how
\* the call ended: "hit" (line 136, a stored entry point), "notfound" (line
\* 136, the value read for an absent key), "threw" (line 153), "built" (177).
jl_get_cfunction_trampoline(site, fin, f, vals) ==
    /\ UNCHANGED <<libVars, featVars, concVars>>
    /\ fault = "none"
    /\ last.kind = "none"
    /\ reachable[fin]
    /\ LET fill == Fill[site]
           usesInner == UsesInner(fill)
           root == RootAfterLookup(site, fill, vals)
           heap == InnerAfterLookup(root, fill, vals)
           tbl == LookupTable(root, heap, fill, vals)
           tramp == ptrhash_get(tbl, f)
           obs == [NoCall EXCEPT !.site = site, !.f = f, !.vals = vals,
                     !.innerLookups = IF usesInner THEN 1 ELSE 0,
                     !.innerAllocs = Cardinality(DOMAIN heap \ DOMAIN inner)]
           sp == FillLoop(fill, vals, 1, << >>)
           id == Len(recs) + 1
       IN  IF CacheHit(tramp)
             THEN \* lines 135-136
                  /\ cache' = [cache EXCEPT ![site] = root]
                  /\ inner' = heap
                  /\ last' = [obs EXCEPT !.ret = tramp,
                                !.kind = IF ptrhash_has(tbl, f) THEN "hit"
                                                                ELSE "notfound"]
                  /\ UNCHANGED <<recs, trampolines, trampolines_table, gcFinalizers>>
             ELSE IF sp.threw
               THEN \* lines 140-154
                  /\ cache' = [cache EXCEPT ![site] = root]
                  /\ inner' = heap
                  /\ last' = [obs EXCEPT !.kind = "threw", !.evals = sp.evals,
                                !.at = sp.at, !.nvalAllocs = 1,
                                !.nvalFrees = CatchFrees(obs.nvalFrees)]
                  /\ UNCHANGED <<recs, trampolines, trampolines_table, gcFinalizers>>
               ELSE \* lines 140-177
                  /\ Len(recs) < MaxRecs
                  /\ recs' = Append(recs,
                        Record(id, NvalCells(f, sp.params), fin, site,
                               IF usesInner THEN vals ELSE NONE, f))
                  /\ cache' = [cache EXCEPT ![site] = RootPut(root, fill, f, id)]
                  /\ inner' = InnerPut(root, heap, fill, vals, f, id)
                  /\ IF ~Permanent(fin)
                       THEN /\ trampolines' = ptrhash_put(trampolines, fin, id)
                            /\ trampolines_table' = TRUE
                            /\ gcFinalizers' = [gcFinalizers EXCEPT ![fin] = @ + 1]
                       ELSE UNCHANGED <<trampolines, trampolines_table, gcFinalizers>>
                  /\ last' = [obs EXCEPT !.kind = "built", !.ret = id, !.fin = fin,
                                !.evals = sp.evals, !.nvalAllocs = 1,
                                !.trampAllocs = 1, !.inits = 1, !.puts = 1,
                                !.regs = IF Permanent(fin) THEN 0 ELSE 1,
                                !.gcAdds = IF Permanent(fin) THEN 0 ELSE 1]
    /\ UNCHANGED <<HT_NOTFOUND, reachable, fault>>

\* the caller takes the result of the call
TrampReturn ==
    /\ UNCHANGED <<libVars, featVars, concVars>>
    /\ last.kind # "none"
    /\ last' = NoCall
    /\ UNCHANGED <<HT_NOTFOUND, cache, inner, trampolines_table, recs, trampolines,
                   gcFinalizers, reachable, fault>>

\* the finalizer objects the program can drop; the type objects stay referenced
\* by the runtime's type system for the life of the process
Droppable == {"obj", "single"}

\* the program drops its last reference to a finalizer object
GcUnreachable(o) ==
    /\ UNCHANGED <<libVars, featVars, concVars>>
    /\ fault = "none"
    /\ last.kind = "none"
    /\ reachable[o]
    /\ reachable' = [reachable EXCEPT ![o] = FALSE]
    /\ UNCHANGED <<HT_NOTFOUND, cache, inner, trampolines_table, recs, trampolines,
                   gcFinalizers, fault, last>>

\* trampoline_deleter, lines 104-111, run by the collector: one registered
\* callback of an unreachable object fires.  Without an entry the assertion of
\* line 108 aborts a build with assertions; a build without them goes on to
\* free what HT_NOTFOUND points to.
trampoline_deleter(o) ==
    /\ UNCHANGED <<libVars, featVars, concVars>>
    /\ fault = "none"
    /\ last.kind = "none"
    /\ ~reachable[o]
    /\ gcFinalizers[o] > 0
    /\ gcFinalizers' = [gcFinalizers EXCEPT ![o] = @ - 1]
    /\ trampolines' = ptrhash_remove(trampolines, o)
    /\ IF ptrhash_has(trampolines, o)
         THEN /\ recs' = [recs EXCEPT ![trampolines[o]] =
                            [@ EXCEPT !.trampFrees = @ + 1, !.nvalFrees = @ + 1,
                                       !.freedBy = o]]
              /\ UNCHANGED fault
         ELSE /\ \E how \in {"assertion failed", "invalid free"} : fault' = how
              /\ UNCHANGED recs
    /\ UNCHANGED <<HT_NOTFOUND, cache, inner, trampolines_table, reachable, last>>

TrampNext ==
    \/ \E site \in Sites, fin \in Fins, f \in Closures, vals \in Vals :
           jl_get_cfunction_trampoline(site, fin, f, vals)
    \/ TrampReturn
    \/ \E o \in Droppable : GcUnreachable(o)
    \/ \E o \in Fins : trampoline_deleter(o)

(***************************************************************************)
(* jl_get_cfunction_trampoline called from several threads at once, with   *)
(* no lock around the tables (lines 114-178 take none).  Each read or      *)
(* write of a shared table is one step, in program order; what a thread    *)
(* computes in its own frame between two of them belongs to the step that  *)
(* follows.  The htable operations themselves are taken as indivisible.    *)
(***************************************************************************)
\* the arguments the racing callers pass: one call site with formal
\* parameters, one closure, two binding-value arrays that specialize to
\* different bound values (v1, v4)
ConcSites == {"siteP"}
ConcClosures == {"f1"}
ConcVals == {"v1", "v4"}
ConcFins == {"obj", "single"}

\* parameter arrays malloc'ed at line 140 and not yet stored or freed
InFlight == Cardinality({u \in Builders : bpc[u] \in {"fill", "publish"}})

\* the threads inside a call
InCall == {u \in Builders : bpc[u] \notin {"idle", "done"}}

\* the parameter `cache` on entry: the address of the site's root
RootPtr(site) == <<site>>

\* the locals of a call besides nval and tramp:
\*   cache2: the pointer of line 127, as the cell of the root's table whose
\*           value it points to
\*   cache:  the local `cache`, the root's address or an inner cache's;
\*           NoTable when it holds HT_NOTFOUND
\*   threw:  the call ended in jl_rethrow
NoTable == << >>
NoLocals == [cache2 |-> 0, cache |-> NoTable, threw |-> FALSE]

\* The root's table as the htable keeps it: open addressing in the storage
\* inside the htable_t, which htable_new(h, 1) uses again.  A cell holds a
\* key and a value; HT_NOTFOUND in the key is NoKey, in the value NoTable.
\* The table has room for every key and every value stored without a key.
NCells == Cardinality(ConcVals) + NBuilders
NoKey == "HT_NOTFOUND"
EmptyCells == [i \in 1..NCells |-> [key |-> NoKey, val |-> NoTable]]

\* the n-th cell probed from cell `start`
ProbeAt(start, n) == ((start - 1 + n) % NCells) + 1

\* where the probing of each vals pointer can start: its hash, which the
\* pointer values fix; the cells are numbered from the one of v1
HashChoices == {h \in [ConcVals -> 1..NCells] : h["v1"] = 1}

\* ptrhash_bp: the first cell on the probe path that is free (its value is
\* HT_NOTFOUND) or holds the key; 0 when there is none
RECURSIVE ptrhash_bp(_, _, _, _)
ptrhash_bp(cells, key, start, n) ==
    IF n = NCells THEN 0
    ELSE LET i == ProbeAt(start, n)
         IN  IF cells[i].val = NoTable \/ cells[i].key = key
               THEN i
               ELSE ptrhash_bp(cells, key, start, n + 1)

\* the lookup without insertion: the cell on the probe path that holds the
\* key, 0 when a cell without a key comes first
RECURSIVE ptrhash_peek(_, _, _, _)
ptrhash_peek(cells, key, start, n) ==
    IF n = NCells THEN 0
    ELSE LET i == ProbeAt(start, n)
         IN  IF cells[i].key = NoKey THEN 0
             ELSE IF cells[i].key = key THEN i
             ELSE ptrhash_peek(cells, key, start, n + 1)

\* the entries a lookup finds in the cells: vals pointer to inner cache
RootEnt(cells) ==
    LET at(k) == ptrhash_peek(cells, k, bhash[k], 0)
        found == {k \in ConcVals : at(k) # 0 /\ cells[at(k)].val # NoTable}
    IN  [k \in found |-> cells[at(k)].val]

\* the concurrent callers' state before any call, but for the hashes
ConcLocalsInit ==
    /\ bpc = [t \in Builders |-> "idle"]
    /\ barg = [t \in Builders |-> NoArgs]
    /\ bnval = [t \in Builders |-> NoNval]
    /\ bret = [t \in Builders |-> NullTramp]
    /\ bloc = [t \in Builders |-> NoLocals]
    /\ bcells = [s \in Sites |-> EmptyCells]
    /\ bwith = [t \in Builders |-> {}]

ConcInit ==
    /\ ConcLocalsInit
    /\ bhash = [v \in ConcVals |-> 1]

\* the position after the root's table is there: line 126
AfterTable(site) == IF UsesInner(Fill[site]) THEN "bp" ELSE "get"

\* the htable_t a local `cache` points to
TableAt(ptr) == IF Len(ptr) = 1 THEN cache[ptr[1]].ent ELSE inner[ptr]

\* a thread enters jl_get_cfunction_trampoline
B_Call(t, site, fin, f, vals) ==
    /\ bpc[t] = "idle"
    /\ bpc' = [bpc EXCEPT ![t] = "test"]
    /\ barg' = [barg EXCEPT ![t] = [site |-> site, fin |-> fin, f |-> f, vals |-> vals]]
    /\ bloc' = [bloc EXCEPT ![t] = [NoLocals EXCEPT !.cache = RootPtr(site)]]
    /\ bwith' = [u \in Builders |->
                    IF u = t THEN InCall
                    ELSE IF u \in InCall THEN bwith[u] \cup {t} ELSE bwith[u]]
    /\ UNCHANGED <<bcells, bhash, bnval, bret, libVars, featVars, trampVars>>

\* line 124: the read of cache->table
B_TableTest(t) ==
    /\ bpc[t] = "test"
    /\ bpc' = [bpc EXCEPT ![t] = IF cache[barg[t].site].table
                                   THEN AfterTable(barg[t].site) ELSE "new"]
    /\ UNCHANGED <<bcells, bhash, bwith, barg, bnval, bret, bloc, libVars, featVars, trampVars>>

\* line 125: htable_new(cache, 1), which drops what the table held
B_TableNew(t) ==
    /\ bpc[t] = "new"
    /\ cache' = [cache EXCEPT ![barg[t].site] = htable_new(@)]
    /\ bcells' = [bcells EXCEPT ![barg[t].site] = EmptyCells]
    /\ bpc' = [bpc EXCEPT ![t] = AfterTable(barg[t].site)]
    /\ UNCHANGED <<bhash, bwith, barg, bnval, bret, bloc, HT_NOTFOUND, inner, trampolines_table,
                   recs, trampolines, gcFinalizers, reachable, fault, last,
                   libVars, featVars>>

\* line 127: ptrhash_bp(cache, vals) gives the address of the value of the
\* first cell on the probe path that is free or holds vals, and writes vals
\* into its key; a cell another call was given and has not stored into yet
\* is free
B_Bp(t) ==
    /\ bpc[t] = "bp"
    /\ LET a == barg[t]
           i == ptrhash_bp(bcells[a.site], a.vals, bhash[a.vals], 0)
       IN  /\ i # 0
           /\ bcells' = [bcells EXCEPT ![a.site][i].key = a.vals]
           /\ cache' = [cache EXCEPT ![a.site].ent = RootEnt(bcells'[a.site])]
           /\ bloc' = [bloc EXCEPT ![t].cache2 = i]
    /\ bpc' = [bpc EXCEPT ![t] = "bpread"]
    /\ UNCHANGED <<bhash, bwith, barg, bnval, bret, HT_NOTFOUND, inner,
                   trampolines_table, recs, trampolines, gcFinalizers, reachable,
                   fault, last, libVars, featVars>>

\* lines 128-129: cache = *cache2, whatever key the cell holds by now, and
\* the test against HT_NOTFOUND
B_BpRead(t) ==
    /\ bpc[t] = "bpread"
    /\ LET v == bcells[barg[t].site][bloc[t].cache2].val
       IN  /\ bloc' = [bloc EXCEPT ![t].cache = v]
           /\ bpc' = [bpc EXCEPT ![t] = IF v = NoTable THEN "innernew" ELSE "get"]
    /\ UNCHANGED <<bcells, bhash, bwith, barg, bnval, bret, libVars, featVars,
                   trampVars>>

\* lines 130-131: an inner cache is made and stored into the cell cache2
\* points to, over whatever the cell holds by now and whatever its key is
B_InnerNew(t) ==
    /\ bpc[t] = "innernew"
    /\ LET a == barg[t]
           tid == NewTable(a.site, a.vals)
       IN  /\ inner' = [x \in DOMAIN inner \cup {tid} |->
                           IF x = tid THEN EmptyTable ELSE inner[x]]
           /\ bcells' = [bcells EXCEPT ![a.site][bloc[t].cache2].val = tid]
           /\ cache' = [cache EXCEPT ![a.site].ent = RootEnt(bcells'[a.site])]
           /\ bloc' = [bloc EXCEPT ![t].cache = tid]
    /\ bpc' = [bpc EXCEPT ![t] = "get"]
    /\ UNCHANGED <<bhash, bwith, barg, bnval, bret, HT_NOTFOUND,
                   trampolines_table, recs, trampolines, gcFinalizers, reachable,
                   fault, last, libVars, featVars>>

\* lines 134-140: ptrhash_get on the local cache, the early return, and on a
\* miss the malloc of nval (the model builds MaxRecs records at most)
B_Get(t) ==
    /\ bpc[t] = "get"
    /\ LET tramp == ptrhash_get(TableAt(bloc[t].cache), barg[t].f)
       IN  IF CacheHit(tramp)
             THEN /\ bpc' = [bpc EXCEPT ![t] = "done"]
                  /\ bret' = [bret EXCEPT ![t] = tramp]
             ELSE /\ Len(recs) + InFlight < MaxRecs
                  /\ bpc' = [bpc EXCEPT ![t] = "fill"]
                  /\ UNCHANGED bret
    /\ UNCHANGED <<bcells, bhash, bwith, barg, bnval, bloc, libVars, featVars, trampVars>>

\* lines 141-154: the specialization loop, and the catch block when it raises
B_Fill(t) ==
    /\ bpc[t] = "fill"
    /\ LET a == barg[t]
           sp == FillLoop(Fill[a.site], a.vals, 1, << >>)
       IN  IF sp.threw
             THEN /\ bpc' = [bpc EXCEPT ![t] = "done"]
                  /\ bloc' = [bloc EXCEPT ![t].threw = TRUE]
                  /\ UNCHANGED bnval
             ELSE /\ bpc' = [bpc EXCEPT ![t] = "publish"]
                  /\ bnval' = [bnval EXCEPT ![t] = NvalCells(a.f, sp.params)]
                  /\ UNCHANGED bloc
    /\ UNCHANGED <<bcells, bhash, bwith, barg, bret, libVars, featVars, trampVars>>

\* lines 155-158: the trampoline is made and stored under f through the
\* local cache
B_Publish(t) ==
    /\ bpc[t] = "publish"
    /\ LET a == barg[t]
           id == Len(recs) + 1
           ptr == bloc[t].cache
       IN  /\ recs' = Append(recs, Record(id, bnval[t], a.fin, a.site,
                                IF UsesInner(Fill[a.site]) THEN a.vals ELSE NONE,
                                a.f))
           /\ IF Len(ptr) = 1
                THEN /\ cache' = [cache EXCEPT ![ptr[1]].ent = ptrhash_put(@, a.f, id)]
                     /\ UNCHANGED inner
                ELSE /\ inner' = [inner EXCEPT ![ptr] = ptrhash_put(@, a.f, id)]
                     /\ UNCHANGED cache
           /\ bret' = [bret EXCEPT ![t] = id]
    /\ bpc' = [bpc EXCEPT ![t] = "classify"]
    /\ UNCHANGED <<bcells, bhash, bwith, barg, bnval, bloc, HT_NOTFOUND, trampolines_table, trampolines,
                   gcFinalizers, reachable, fault, last, libVars, featVars>>

\* lines 159-168: the lifetime is classified; for a tracked finalizer the read
\* of trampolines.table
B_Classify(t) ==
    /\ bpc[t] = "classify"
    /\ bpc' = [bpc EXCEPT ![t] =
                 IF Permanent(barg[t].fin) THEN "done"
                 ELSE IF trampolines_table THEN "regput" ELSE "regnew"]
    /\ UNCHANGED <<bcells, bhash, bwith, barg, bnval, bret, bloc, libVars, featVars, trampVars>>

\* line 169: htable_new(&trampolines, 1), which drops what the registry held
B_RegNew(t) ==
    /\ bpc[t] = "regnew"
    /\ trampolines' = EmptyTable
    /\ trampolines_table' = TRUE
    /\ bpc' = [bpc EXCEPT ![t] = "regput"]
    /\ UNCHANGED <<bcells, bhash, bwith, barg, bnval, bret, bloc, HT_NOTFOUND, cache, inner, recs,
                   gcFinalizers, reachable, fault, last, libVars, featVars>>

\* line 170
B_RegPut(t) ==
    /\ bpc[t] = "regput"
    /\ trampolines' = ptrhash_put(trampolines, barg[t].fin, bret[t])
    /\ bpc' = [bpc EXCEPT ![t] = "gcadd"]
    /\ UNCHANGED <<bcells, bhash, bwith, barg, bnval, bret, bloc, HT_NOTFOUND, cache, inner,
                   trampolines_table, recs, gcFinalizers, reachable, fault, last,
                   libVars, featVars>>

\* line 175
B_GcAdd(t) ==
    /\ bpc[t] = "gcadd"
    /\ gcFinalizers' = [gcFinalizers EXCEPT ![barg[t].fin] = @ + 1]
    /\ bpc' = [bpc EXCEPT ![t] = "done"]
    /\ UNCHANGED <<bcells, bhash, bwith, barg, bnval, bret, bloc, HT_NOTFOUND, cache, inner,
                   trampolines_table, recs, trampolines, reachable, fault, last,
                   libVars, featVars>>

\* the caller takes the result, or the error
B_Return(t) ==
    /\ bpc[t] = "done"
    /\ bpc' = [bpc EXCEPT ![t] = "idle"]
    /\ barg' = [barg EXCEPT ![t] = NoArgs]
    /\ bnval' = [bnval EXCEPT ![t] = NoNval]
    /\ bret' = [bret EXCEPT ![t] = NullTramp]
    /\ bloc' = [bloc EXCEPT ![t] = NoLocals]
    /\ bwith' = [u \in Builders |-> IF u = t THEN {} ELSE bwith[u] \ {t}]
    /\ UNCHANGED <<bcells, bhash, libVars, featVars, trampVars>>

ConcNext ==
    \E t \in Builders :
        \/ \E site \in ConcSites, fin \in ConcFins, f \in ConcClosures, vals \in ConcVals :
               B_Call(t, site, fin, f, vals)
        \/ B_TableTest(t)
        \/ B_TableNew(t)
        \/ B_Bp(t)
        \/ B_BpRead(t)
        \/ B_InnerNew(t)
        \/ B_Get(t)
        \/ B_Fill(t)
        \/ B_Publish(t)
        \/ B_Classify(t)
        \/ B_RegNew(t)
        \/ B_RegPut(t)
        \/ B_GcAdd(t)
        \/ B_Return(t)

(***************************************************************************)
(* jl_get_cpu_features_llvm, lines 62-92.  Strings are sequences of         *)
(* characters.                                                             *)
(***************************************************************************)
\* entries a host feature map holds at most
MaxFeatures == 3

\* feature names the host may report
FeatureNames == { <<"a", "x">>, <<"f">>, <<"p", "-", "b">>, <<"s", "2">> }

\* one entry of the map: ele.getKey(), ele.getValue()
FeatureEntries == [key : FeatureNames, val : BOOLEAN]

\* the maps llvm::sys::getHostCPUFeatures can fill, each as the sequence of its
\* entries in the order the StringMap iterates them; keys are distinct
FeatureMaps ==
    { m \in UNION { [1..n -> FeatureEntries] : n \in 0..MaxFeatures } :
          \A i, j \in 1..Len(m) : i # j => m[i].key # m[j].key }

\* lines 68-73 and 81-86: attr.append of the separator and the sign
AppendSign(str, sign) ==
    IF str # << >> THEN str \o <<",", sign>> ELSE <<sign>>

\* one loop over the map from entry i on (lines 66-75 with want = TRUE and
\* sign "+", lines 79-89 with want = FALSE and sign "-")
RECURSIVE FeatureLoop(_, _, _, _, _)
FeatureLoop(m, i, want, sign, str) ==
    IF i > Len(m)
      THEN str
      ELSE FeatureLoop(m, i + 1, want, sign,
                       IF m[i].val = want
                         THEN AppendSign(str, sign) \o m[i].key
                         ELSE str)

\* a single loop appending every entry with its sign, in map order
RECURSIVE OnePassLoop(_, _, _)
OnePassLoop(m, i, str) ==
    IF i > Len(m)
      THEN str
      ELSE OnePassLoop(m, i + 1,
                       AppendSign(str, IF m[i].val THEN "+" ELSE "-") \o m[i].key)

\* mutant of jl_get_cpu_features_llvm: the two loops merged into one
jl_get_cpu_features_llvm_OnePass(m) == OnePassLoop(m, 1, << >>)

\* lines 62-92: the enabled features, then the disabled ones
jl_get_cpu_features_llvm(m) ==
    FeatureLoop(m, 1, FALSE, "-", FeatureLoop(m, 1, TRUE, "+", << >>))

FeatInit ==
    /\ HostFeatures = << >>
    /\ attr = << >>
    /\ featRet = FALSE

\* a call of jl_get_cpu_features_llvm on the host's map
CallGetCpuFeatures ==
    /\ ~featRet
    /\ attr' = jl_get_cpu_features_llvm(HostFeatures)
    /\ featRet' = TRUE
    /\ UNCHANGED <<HostFeatures, libVars, trampVars, concVars>>

\* the caller takes the string
FeatReturn ==
    /\ featRet
    /\ attr' = << >>
    /\ featRet' = FALSE
    /\ UNCHANGED <<HostFeatures, libVars, trampVars, concVars>>

FeatNext ==
    \/ CallGetCpuFeatures
    \/ FeatReturn

\* an htable whose HT_NOTFOUND is not the null pointer
Init ==
    /\ LibInit /\ TrampInit /\ ConcInit /\ FeatInit
    /\ HT_NOTFOUND = NotFoundMarker

\* either htable
InitTramp ==
    /\ LibInit /\ TrampInit /\ ConcInit /\ FeatInit
    /\ HT_NOTFOUND \in NotFoundValues

\* concurrent callers of the library handle cache and the symbol resolver
SpecLib == Init /\ [][LibNext]_vars

\* serialized calls of jl_get_cfunction_trampoline, with the collector
SpecTramp == InitTramp /\ [][TrampNext]_vars

\* serialized calls of jl_get_cfunction_trampoline with every kind of finalizer
ClassifyNext ==
    \/ \E fin \in AllFins, f \in Closures :
           jl_get_cfunction_trampoline("siteE", fin, f, "v1")
    \/ TrampReturn

SpecClassify == InitTramp /\ [][ClassifyNext]_vars

\* either htable, and every placing of the vals pointers in the root's table
InitConc ==
    /\ LibInit /\ TrampInit /\ ConcLocalsInit /\ FeatInit
    /\ bhash \in HashChoices
    /\ HT_NOTFOUND \in NotFoundValues

\* unserialized calls of jl_get_cfunction_trampoline
SpecConc == InitConc /\ [][ConcNext]_vars

\* the state before a call of jl_get_cpu_features_llvm, for each map the
\* host can report
InitFeat ==
    /\ LibInit /\ TrampInit /\ ConcInit
    /\ HT_NOTFOUND = NotFoundMarker
    /\ HostFeatures \in FeatureMaps /\ attr = << >> /\ featRet = FALSE

SpecFeat == InitFeat /\ [][FeatNext]_vars

(***************************************************************************)
(* Claims about the library handle cache and the symbol slots (SpecLib).   *)
(***************************************************************************)
\* a jl_get_library invocation entered when the name's handle was already
\* published has returned exactly that handle
ReturnsPublished ==
    \A t \in Threads :
        (startPub[t] # NULL /\ glret[t] # NONE) => glret[t] = startPub[t]

\* C1: once a non-empty handle is stored in the libMap slot of a name, the slot
\* holds that handle in every later state (never replaced, never removed), and
\* every jl_get_library call for the name entered after the store returns it.
C1_HandleMonotone ==
    [][ /\ \A n \in DOMAIN libMap :
             libMap[n] # NULL =>
                 (n \in DOMAIN libMap' /\ libMap'[n] = libMap[n])
        /\ ReturnsPublished' ]_vars

\* C1 witness: a call entered after the publication has returned the published
\* handle while another thread is still about to store its own redundant load.
C1_Witness ==
    \E t \in Threads : \E u \in Threads \ {t} :
        /\ pc[t] = "done" /\ fn[t] = "jl_get_library"
        /\ startPub[t] # NULL /\ ret[t] = startPub[t]
        /\ libMap[f_lib[t]] = ret[t]
        /\ pc[u] = "gl_store" /\ f_lib[u] = f_lib[t]

\* C2 (as claimed): a symbol slot, once non-empty, never changes again, so it
\* goes from empty to non-empty at most once.
C2_SlotWriteOnce ==
    [][ \A s \in Slots : slot[s] # NULL => slot'[s] = slot[s] ]_vars

\* C10 (as claimed): a jl_get_library call for a name whose handle is already
\* published never acquires libmap_lock.
C10_NoLockWhenPublished ==
    \A t \in Threads : startPub[t] # NULL => ~lockTaken[t]

\* C10 (amended): a jl_get_library call for a name whose handle is already
\* published performs no native load and returns that handle; it does take
\* libmap_lock for the map slot lookup and has released it when it returns.
C10_PublishedReadNoLoad ==
    \A t \in Threads :
        startPub[t] # NULL =>
            /\ loaderCalls[t] = 0
            /\ pc[t] \notin {"gl_load", "gl_store"}
            /\ glret[t] # NONE =>
                   /\ glret[t] = startPub[t]
                   /\ lockTaken[t]
                   /\ libmap_lock # t

\* C10 witness: such a call has returned the published handle.
C10_Witness ==
    \E t \in Threads :
        /\ pc[t] = "done" /\ fn[t] = "jl_get_library"
        /\ startPub[t] # NULL /\ ret[t] = startPub[t]
        /\ lockTaken[t] /\ loaderCalls[t] = 0

(***************************************************************************)
(* Claims about the trampolines under serialized calls (SpecTramp).        *)
(***************************************************************************)
\* what each cache root holds: closure -> entry point without formal
\* parameters, binding values -> (closure -> entry point) with them
CacheView ==
    [s \in Sites |->
        IF Fill[s] = jl_emptysvec
          THEN cache[s].ent
          ELSE [v \in DOMAIN cache[s].ent |-> inner[cache[s].ent[v]]]]

\* the permanence rule as the specification words it: a concrete type, the
\* canonical instance of its type, or the canonical wrapper of a generic type
SpecPermanent(o) ==
    FinAttr[o].kind \in {"concrete type", "singleton instance", "canonical wrapper"}

\* the collector is through with an object: it is unreachable and every
\* callback registered for it has fired, or the process died firing one
Collected(o) == ~reachable[o] /\ (gcFinalizers[o] = 0 \/ fault # "none")

\* C3 (as claimed): every record created with a non-permanent finalizer has its
\* trampoline storage and its parameter array freed exactly once, by the
\* callback fired for its own finalizer: never twice, never by another
\* object's callback, and freed once the collector is through with the object.
C3_FreedExactlyOnce ==
    \A i \in 1..Len(recs) :
        ~SpecPermanent(recs[i].fin) =>
            /\ recs[i].trampFrees <= 1 /\ recs[i].nvalFrees <= 1
            /\ recs[i].freedBy \in {NONE, recs[i].fin}
            /\ Collected(recs[i].fin) =>
                   (recs[i].trampFrees = 1 /\ recs[i].nvalFrees = 1)

\* C4 (as claimed): whenever the collector is about to run trampoline_deleter
\* for an object the weak registry holds an entry for it, so the assertion of
\* line 108 never fails.
C4_RegistryHasEntry ==
    /\ fault = "none"
    /\ \A o \in Fins :
           (~reachable[o] /\ gcFinalizers[o] > 0) => ptrhash_has(trampolines, o)

\* the cache key of the observed call: the binding-values identity when the
\* site has formal parameters
LastKey == IF Fill[last.site] # jl_emptysvec THEN last.vals ELSE NONE

\* C5: for a fixed cache root, binding-values identity and closure at most one
\* record is ever built, and a call that finds it returns its entry point
\* with no evaluator call, no init_trampoline call, no allocation and no
\* registry insertion.
C5_SingleRecordPerKey ==
    /\ \A i, j \in 1..Len(recs) :
           (recs[i].site = recs[j].site /\ recs[i].key = recs[j].key
               /\ recs[i].f = recs[j].f) => i = j
    /\ last.kind = "hit" =>
           /\ \E i \in 1..Len(recs) :
                  /\ recs[i].site = last.site /\ recs[i].key = LastKey
                  /\ recs[i].f = last.f
                  /\ last.ret = recs[i].tramp
           /\ last.evals = 0 /\ last.inits = 0
           /\ last.nvalAllocs = 0 /\ last.trampAllocs = 0 /\ last.innerAllocs = 0
           /\ last.puts = 0 /\ last.regs = 0 /\ last.gcAdds = 0

\* C5 witness: a later call on a site with formal parameters hit the record
\* built by an earlier one.
C5_Witness ==
    /\ last.kind = "hit" /\ last.site = "siteP"
    /\ \E i \in 1..Len(recs) : recs[i].tramp = last.ret /\ recs[i].key = last.vals

\* C6: a call in which the evaluator raises at formal index `at` frees the
\* parameter array it allocated exactly once, allocates no trampoline storage,
\* does not call init_trampoline, inserts no entry for the closure, adds
\* nothing to the weak registry or the collector, and raises to its caller.
C6_SpecializationRollback ==
    [][ (last.kind = "none" /\ last'.kind = "threw") =>
            /\ last'.at >= 0 /\ last'.at < Len(Fill[last'.site])
            /\ last'.evals = last'.at + 1
            /\ last'.nvalAllocs = 1 /\ last'.nvalFrees = 1
            /\ last'.trampAllocs = 0 /\ last'.inits = 0 /\ last'.puts = 0
            /\ last'.regs = 0 /\ last'.gcAdds = 0 /\ last'.ret = 0
            /\ recs' = recs
            /\ trampolines' = trampolines
            /\ gcFinalizers' = gcFinalizers
            /\ ~ptrhash_has(CacheView'[last'.site][last'.vals], last'.f) ]_vars

\* C6 witness: the evaluator raised at the second of the formal parameters,
\* with more of them left.
C6_Witness == last.kind = "threw" /\ last.at = 1 /\ Len(Fill[last.site]) > 2

\* C7: a finalizer classified permanent never has a weak registry entry or a
\* collector callback, and the records made with it are never freed, also
\* after the object became unreachable.
C7_PermanentNeverTracked ==
    /\ \A o \in Fins :
           SpecPermanent(o) => (~ptrhash_has(trampolines, o) /\ gcFinalizers[o] = 0)
    /\ \A i \in 1..Len(recs) :
           SpecPermanent(recs[i].fin) =>
               (recs[i].trampFrees = 0 /\ recs[i].nvalFrees = 0)

\* C7 witness: a record made with the singleton instance is intact after the
\* instance became unreachable, and so is one made with the canonical wrapper.
C7_Witness ==
    /\ ~reachable["single"]
    /\ \E i, j \in 1..Len(recs) :
           /\ recs[i].fin = "single" /\ recs[i].nvalFrees = 0
           /\ recs[j].fin = "wrap" /\ recs[j].nvalFrees = 0

\* C9: a call with the empty formal-parameter vector looks up, allocates and
\* inserts no inner cache; its record is looked up and stored in the cache
\* root under the closure, whatever the binding-values argument.
C9_EmptyFillSingleLevel ==
    /\ \A s \in Sites :
           Fill[s] = jl_emptysvec => DOMAIN CacheView[s] \subseteq Closures
    /\ (last.kind # "none" /\ Fill[last.site] = jl_emptysvec) =>
           /\ last.innerLookups = 0 /\ last.innerAllocs = 0
           /\ last.kind \in {"hit", "built"} =>
                  /\ ptrhash_has(CacheView[last.site], last.f)
                  /\ CacheView[last.site][last.f] = last.ret

\* C9 witness: a record was built on the site without formal parameters by a
\* call whose binding values would make the evaluator raise.
C9_Witness ==
    /\ last.kind = "built" /\ last.site = "siteE" /\ last.vals = "v3"
    /\ CacheView["siteE"][last.f] = last.ret

(***************************************************************************)
(* Claims about unserialized calls (SpecConc).                             *)
(***************************************************************************)
\* two records were built for the same cache root, binding values and closure
SameKey(i, j) ==
    /\ recs[i].site = recs[j].site
    /\ recs[i].key = recs[j].key
    /\ recs[i].f = recs[j].f

\* C8 (as claimed): with a deterministic evaluator, all records that racing
\* threads build for one (cache root, binding-values identity, closure) hold
\* the same closure and the same sequence of bound values, and the entry
\* points returned to two calls for the same pair that ran concurrently
\* belong to records with the same closure and the same bound values.
C8_ConcurrentBuildsEquivalent ==
    /\ \A i, j \in 1..Len(recs) :
           SameKey(i, j) =>
               (recs[i].closure = recs[j].closure /\ recs[i].params = recs[j].params)
    /\ \A t \in Builders : \A u \in bwith[t] :
           ( /\ bpc[t] = "done" /\ bpc[u] = "done"
             /\ barg[t].site = barg[u].site
             /\ barg[t].f = barg[u].f
             /\ barg[t].vals = barg[u].vals
             /\ bret[t] \in 1..Len(recs) /\ bret[u] \in 1..Len(recs) ) =>
               /\ recs[bret[t]].closure = recs[bret[u]].closure
               /\ recs[bret[t]].params = recs[bret[u]].params

(***************************************************************************)
(* Further claims about the library part (SpecLib).                        *)
(***************************************************************************)
\* C11 (as claimed): once a symbol slot has been non-empty, every later
\* jl_load_and_lookup call on it goes straight to the symbol lookup: it does
\* not call jl_get_library (no lock, no native load, no slot write).
C11_HotPathOnceSet ==
    [][ \A t \in Threads :
            (pc[t] = "idle" /\ fn'[t] = "jl_load_and_lookup" /\ slotEver[sl'[t]])
                => pc'[t] = "ll_sym" ]_vars

\* C13: libmap_lock is held by a thread exactly between its acquisition and
\* the end of the map slot lookup; the acquire read, the native load and the
\* release store run after the thread released it, and a call that returned
\* does not hold it.
C13_LockScope ==
    \A t \in Threads :
        /\ libmap_lock = t <=> pc[t] \in {"gl_slot", "gl_unlock"}
        /\ pc[t] \in {"gl_read", "gl_load", "gl_store"} =>
               (lockTaken[t] /\ libmap_lock # t)
        /\ glret[t] # NONE => libmap_lock # t

\* C13 witness: one thread is in the native loader, having taken and released
\* the lock, while another thread holds the lock.
C13_Witness ==
    \E t \in Threads : \E u \in Threads \ {t} :
        /\ pc[t] = "gl_load" /\ lockTaken[t]
        /\ libmap_lock = u /\ pc[u] = "gl_slot"

\* C14: a native load that fails makes jl_get_library return the empty handle
\* normally and write nothing to libMap; jl_load_and_lookup then has the empty
\* handle in the caller's slot; a resolution that reads the map slot empty
\* performs the native load, and a load that succeeds is published and
\* returned.
C14_FailedLoadPublishesNothing ==
    [][ \A t \in Threads :
          /\ (pc[t] = "gl_store" /\ hnd[t] = NULL /\ pc'[t] # pc[t]) =>
                 /\ libMap' = libMap
                 /\ glret'[t] = NULL
                 /\ pc'[t] \in {"done", "ll_store"}
          /\ (pc[t] = "ll_store" /\ handle[t] = NULL /\ pc'[t] # pc[t]) =>
                 (slot'[sl[t]] = NULL /\ pc'[t] = "ll_sym")
          /\ (pc[t] = "gl_read" /\ libMap[f_lib[t]] = NULL /\ pc'[t] # pc[t]) =>
                 pc'[t] = "gl_load"
          /\ (pc[t] = "gl_load" /\ pc'[t] # pc[t]) =>
                 loaderCalls'[t] = loaderCalls[t] + 1
          /\ (pc[t] = "gl_store" /\ hnd[t] # NULL /\ pc'[t] # pc[t]) =>
                 (libMap'[f_lib[t]] = hnd[t] /\ glret'[t] = hnd[t]) ]_vars

\* C14 witness: a jl_load_and_lookup call whose native load failed has
\* returned with its slot and the map slot empty, and a resolution of the same
\* name that found the map slot empty has loaded the library and returned it.
C14_Witness ==
    \E t \in Threads : \E u \in Threads \ {t} :
        /\ pc[t] = "done" /\ fn[t] = "jl_load_and_lookup"
        /\ handle[t] = NULL /\ loaderCalls[t] = 1 /\ slot[sl[t]] = NULL
        /\ pc[u] = "done" /\ fn[u] = "jl_get_library" /\ f_lib[u] = f_lib[t]
        /\ startPub[u] = NULL /\ loaderCalls[u] = 1
        /\ ret[u] # NULL /\ libMap[f_lib[u]] = ret[u]

\* C18: jl_get_library(NULL) returns the default-search-scope handle in one
\* step that leaves libMap and libmap_lock as they were and performs no
\* native load; libMap never has an entry for the null name.
C18_NullNameBypass ==
    [][ /\ NULL \notin DOMAIN libMap'
        /\ \A t \in Threads :
              (pc[t] = "gl_entry" /\ f_lib[t] = NULL /\ pc'[t] # pc[t]) =>
                  /\ pc'[t] = "done"
                  /\ ret'[t] = jl_RTLD_DEFAULT_handle
                  /\ libMap' = libMap
                  /\ libmap_lock' = libmap_lock
                  /\ ~lockTaken'[t]
                  /\ loaderCalls'[t] = 0 ]_vars

\* C18 witness: a call with the null name has returned the default handle
\* while libMap holds a published handle for a name.
C18_Witness ==
    \E t \in Threads :
        /\ pc[t] = "done" /\ fn[t] = "jl_get_library" /\ f_lib[t] = NULL
        /\ ret[t] = jl_RTLD_DEFAULT_handle /\ ~lockTaken[t]
        /\ \E n \in DOMAIN libMap : libMap[n] # NULL

(***************************************************************************)
(* Claims about the feature string (SpecFeat).                             *)
(***************************************************************************)
\* the fields of a string between its commas, from character i on
RECURSIVE SplitAt(_, _, _, _)
SplitAt(str, i, cur, acc) ==
    IF i > Len(str)
      THEN Append(acc, cur)
      ELSE IF str[i] = ","
             THEN SplitAt(str, i + 1, << >>, Append(acc, cur))
             ELSE SplitAt(str, i + 1, Append(cur, str[i]), acc)

\* the comma-separated tokens of a string; the empty string has none
Tokens(str) == IF str = << >> THEN << >> ELSE SplitAt(str, 1, << >>, << >>)

\* the token a map entry is to appear as
TokenOf(e) == <<IF e.val THEN "+" ELSE "-">> \o e.key

\* C12: the string returned is the comma-joined list of one token per map
\* entry, +name for an enabled and -name for a disabled feature, each exactly
\* once, with no leading, trailing or doubled separator and every +name token
\* before every -name token; it is empty for the empty map and starts with
\* '-' for a non-empty map with no enabled feature.
C12_FeatureStringOrdering ==
    featRet =>
        LET toks == Tokens(attr)
            n == Len(HostFeatures)
        IN  /\ Len(toks) = n
            /\ \A k \in 1..Len(toks) : toks[k] # << >>
            /\ \A i \in 1..n :
                   Cardinality({k \in 1..Len(toks) : toks[k] = TokenOf(HostFeatures[i])}) = 1
            /\ \A a, b \in 1..Len(toks) :
                   (toks[a][1] = "+" /\ toks[b][1] = "-") => a < b
            /\ n = 0 => attr = << >>
            /\ (n > 0 /\ \A i \in 1..n : ~HostFeatures[i].val) => attr[1] = "-"

\* C12 witness: the map iterates a disabled feature before an enabled one,
\* holds a name with a '-' inside, and the string returned starts with '+'.
C12_Witness ==
    /\ featRet
    /\ Len(HostFeatures) = 3
    /\ ~HostFeatures[1].val /\ HostFeatures[2].val
    /\ HostFeatures[3].key = <<"p", "-", "b">>
    /\ attr[1] = "+"

(***************************************************************************)
(* Further claims about the trampolines (SpecClassify, SpecTramp).         *)
(***************************************************************************)
\* none of the three permanence conditions holds for a finalizer
Tracked(o) ==
    /\ ~FinAttr[o].concrete
    /\ ~FinAttr[o].instance
    /\ ~(FinAttr[o].unionall /\ FinAttr[o].uwdt /\ FinAttr[o].wrapper)

\* C15: a call that builds a record puts it in the weak registry under its
\* finalizer and adds one collector finalizer if and only if the finalizer is
\* neither a concrete type, nor the canonical instance of its own type, nor a
\* unionall whose unwrapped body is a datatype with the finalizer as wrapper.
C15_PermanenceClassification ==
    /\ last.kind = "built" =>
           /\ last.regs = (IF Tracked(last.fin) THEN 1 ELSE 0)
           /\ last.gcAdds = (IF Tracked(last.fin) THEN 1 ELSE 0)
           /\ Tracked(last.fin) =>
                  (ptrhash_has(trampolines, last.fin)
                      /\ trampolines[last.fin] = last.ret)
    /\ \A o \in AllFins :
           /\ ptrhash_has(trampolines, o) <=>
                  (Tracked(o) /\ \E i \in 1..Len(recs) : recs[i].fin = o)
           /\ gcFinalizers[o] =
                  (IF Tracked(o)
                     THEN Cardinality({i \in 1..Len(recs) : recs[i].fin = o})
                     ELSE 0)

\* C15 witness: a record was built with a partially applied unionall, which
\* is tracked, after one built with a canonical wrapper, which is not.
C15_Witness ==
    /\ last.kind = "built" /\ last.fin = "uapp" /\ last.regs = 1
    /\ ptrhash_has(trampolines, "uapp")
    /\ \E i \in 1..Len(recs) : recs[i].fin = "wrap"
    /\ ~ptrhash_has(trampolines, "wrap")

\* C16: in every record built, the cell of formal parameter k holds the
\* evaluator's result for that formal when the result is the top type or is
\* concrete and immutable, and NULL otherwise, in the order of the formal
\* parameters; the closure cell holds the closure of the call and cell 0 the
\* record's own trampoline storage.
C16_BoundValueRule ==
    \A i \in 1..Len(recs) :
        LET fill == Fill[recs[i].site]
        IN  /\ recs[i].tramp = i
            /\ recs[i].closure = recs[i].f
            /\ Len(recs[i].params) = Len(fill)
            /\ \A k \in 1..Len(fill) :
                   LET e == jl_instantiate_type_in_env(fill[k], recs[i].key)
                   IN  recs[i].params[k] =
                           (IF e = jl_any_type
                                 \/ (jl_is_concrete_type(e) /\ jl_is_immutable(e))
                              THEN e ELSE NULL)

\* C16 witness: a record holds a concrete immutable type, NULL for a concrete
\* mutable type, the top type, and NULL for an abstract type, in that order.
C16_Witness ==
    \E i \in 1..Len(recs) :
        /\ recs[i].params = <<"Int64", NULL, jl_any_type, NULL>>
        /\ recs[i].closure = "f2"

\* C17: a call with formal parameters looks up the inner cache of its
\* binding-values identity and allocates it only when the root has none for
\* that identity; the other inner caches are untouched; the call hits exactly
\* when that inner cache holds the closure, whatever other identities with
\* equal contents hold, and a build stores a fresh record in that inner cache
\* alone.
C17_BindingIdentityIsKey ==
    [][ (last.kind = "none" /\ last'.kind # "none"
             /\ Fill[last'.site] # jl_emptysvec) =>
            LET s == last'.site
                v == last'.vals
                f == last'.f
                old == CacheView[s]
                new == CacheView'[s]
            IN  /\ last'.innerLookups = 1
                /\ last'.innerAllocs = (IF ptrhash_has(old, v) THEN 0 ELSE 1)
                /\ DOMAIN new = DOMAIN old \cup {v}
                /\ \A w \in DOMAIN old \ {v} : new[w] = old[w]
                /\ (last'.kind = "hit") <=>
                       (ptrhash_has(old, v) /\ ptrhash_has(old[v], f))
                /\ last'.kind = "hit" =>
                       (last'.ret = old[v][f] /\ new[v] = old[v])
                /\ last'.kind = "built" =>
                       /\ last'.ret = Len(recs) + 1
                       /\ recs'[last'.ret].key = v
                       /\ new[v] = ptrhash_put(IF ptrhash_has(old, v)
                                                 THEN old[v] ELSE EmptyTable,
                                               f, last'.ret) ]_vars

\* C17 witness: two records were built for one closure under two binding
\* arrays of equal contents and different identity, each in its own inner
\* cache, and a further call hit one of them without allocating.
C17_Witness ==
    /\ last.kind = "hit" /\ last.site = "siteP" /\ last.innerAllocs = 0
    /\ \E i, j \in 1..Len(recs) :
           /\ i # j
           /\ recs[i].site = "siteP" /\ recs[j].site = "siteP"
           /\ recs[i].f = recs[j].f
           /\ recs[i].key = "v1" /\ recs[j].key = "v1b"
           /\ recs[i].params = recs[j].params
           /\ CacheView["siteP"]["v1"][recs[i].f] = i
           /\ CacheView["siteP"]["v1b"][recs[j].f] = j

\* the record of an entry point has been freed
Freed(id) == recs[id].trampFrees > 0 \/ recs[id].nvalFrees > 0

\* C19 (as claimed): every entry point a call returns, from a hit or a build,
\* belongs to a record that has not been freed, and no cache maps a closure
\* to a freed record.
C19_NoDanglingEntryPoint ==
    /\ last.kind \in {"hit", "notfound", "built"} =>
           (last.ret \in 1..Len(recs) /\ ~Freed(last.ret))
    /\ \A s \in Sites :
           IF Fill[s] = jl_emptysvec
             THEN \A f \in DOMAIN CacheView[s] : ~Freed(CacheView[s][f])
             ELSE \A v \in DOMAIN CacheView[s] :
                      \A f \in DOMAIN CacheView[s][v] : ~Freed(CacheView[s][v][f])

\* the evaluator raises for some formal parameter of the site
Raises(site, vals) ==
    \E k \in 1..Len(Fill[site]) :
        jl_instantiate_type_in_env(Fill[site][k], vals) = THROW

\* C20 (as claimed): a call that aborts with a specialization failure leaves
\* the key set and the inner caches of every cache root and the weak registry
\* exactly as they were.
C20_FailedBuildLeavesCachesUnchanged ==
    [][ (last.kind = "none" /\ last'.kind = "threw") =>
            /\ \A s \in Sites : CacheView'[s] = CacheView[s]
            /\ trampolines' = trampolines ]_vars

\* C20 (amended): a call whose specialization fails aborts, builds no record,
\* stores no entry for the closure and leaves every existing inner cache, the
\* other cache roots, the weak registry and the collector's callbacks as they
\* were; the cache root gains an empty inner cache under the binding-values
\* identity when it had none.
C20_FailedBuildAddsNoEntry ==
    [][ (last.kind = "none" /\ last'.kind \in {"threw", "built"}
             /\ Raises(last'.site, last'.vals)) =>
            LET s == last'.site
                v == last'.vals
                old == CacheView[s]
            IN  /\ last'.kind = "threw"
                /\ recs' = recs
                /\ trampolines' = trampolines
                /\ gcFinalizers' = gcFinalizers
                /\ \A o \in Sites \ {s} : CacheView'[o] = CacheView[o]
                /\ CacheView'[s] = (IF ptrhash_has(old, v)
                                      THEN old
                                      ELSE ptrhash_put(old, v, EmptyTable)) ]_vars

\* C20 witness: a call failed on a binding-values identity the root did not
\* hold; the root now holds an empty inner cache for it next to the inner
\* cache of an earlier record.
C20_Witness ==
    /\ last.kind = "threw" /\ last.site = "siteP" /\ last.innerAllocs = 1
    /\ CacheView["siteP"][last.vals] = EmptyTable
    /\ \E i \in 1..Len(recs) :
           /\ recs[i].site = "siteP"
           /\ CacheView["siteP"][recs[i].key][recs[i].f] = i

====
